---------------------------- MODULE Spec2Model ----------------------------
(***************************************************************************)
(* Model of the multi-site check-in run of checkin.py (main and the three  *)
(* per-family workers) and of the notification dispatcher of               *)
(* utils/notify.py (NotificationKit.push_message).                         *)
(*                                                                         *)
(* Strings of the program are modelled by what the program does with them: *)
(* a report entry is a record (status tag, account name, detail line), an  *)
(* HTTP response is a record of the fields the code probes.                *)
(***************************************************************************)
EXTENDS Integers, Sequences, FiniteSets, TLC

(***************************************************************************)
(* Bounds of the model.                                                    *)
(***************************************************************************)
\* The most accounts one run is configured with, all families together.
MaxAccounts == 2

(***************************************************************************)
(* Program constants.                                                      *)
(***************************************************************************)
QuotaDivisor == 500000

None == "None"
Absent == -1

\* Raw quota values a provider may report (units of 1/500000 dollar).
RawQuotas == {500000, 1000000}
RawUsed == {0}

RequiredCookies == {"acw_tc", "cdn_sec_tc", "acw_sc__v2"}

Channels == <<"Email", "PushPlus", "Server Push", "DingTalk", "Feishu", "WeChat Work", "Webhook">>

(***************************************************************************)
(* Inputs: provider profiles, account records, network responses.          *)
(***************************************************************************)
\* app_config.get_provider(account.provider): None, or a profile with the two
\* flags check_in_account reads.
Providers ==
    {[found |-> FALSE, waf |-> FALSE, manual |-> FALSE]}
    \cup [found : {TRUE}, waf : BOOLEAN, manual : BOOLEAN]

\* Result of the browser session: the cookies found on the page, or an error
\* raised while the page is open ("page_error", caught inside the function), or
\* an error raised while the browser is launched ("launch_error", not caught).
WafResults ==
    [kind : {"cookies"}, names : SUBSET RequiredCookies]
    \cup [kind : {"page_error", "launch_error"}, names : {{}}]

NoWaf == [kind |-> "none", names |-> {}]

\* Response to GET user-info. status 0 stands for a transport error or timeout.
UserInfoResponses ==
    [status : {0, 500}, body : {"none"}, success : {FALSE}, quota : {0}, used_quota : {0}]
    \cup [status : {200}, body : {"text"}, success : {FALSE}, quota : {0}, used_quota : {0}]
    \cup [status : {200}, body : {"object"}, success : {FALSE}, quota : {0}, used_quota : {0}]
    \cup [status : {200}, body : {"object"}, success : {TRUE}, quota : RawQuotas, used_quota : RawUsed]

\* Response to POST sign-in. body "object" is a JSON object with the probed
\* fields (Absent: the key is missing), "array" a JSON value that is no object,
\* "text" a body that is no JSON; marker: the text contains "success" in any case.
SignInObjects ==
    [status : {200}, body : {"object"}, ret : {Absent, 0, 1}, code : {Absent, 0, 1},
     success : {"absent", "false", "true"}, msg : {"absent", "already signed in"},
     marker : {FALSE}]

SignInResponses ==
    SignInObjects
    \cup [status : {0, 500}, body : {"none"}, ret : {Absent}, code : {Absent},
          success : {"absent"}, msg : {"absent"}, marker : {FALSE}]
    \cup [status : {200}, body : {"array"}, ret : {Absent}, code : {Absent},
          success : {"absent"}, msg : {"absent"}, marker : {FALSE}]
    \cup [status : {200}, body : {"text"}, ret : {Absent}, code : {Absent},
          success : {"absent"}, msg : {"absent"}, marker : BOOLEAN]

NoSignIn ==
    [status |-> -1, body |-> "none", ret |-> Absent, code |-> Absent,
     success |-> "absent", msg |-> "absent", marker |-> FALSE]

(***************************************************************************)
(* Pure functions of checkin.py.                                           *)
(***************************************************************************)
\* round(raw / 500000, 2), kept in cents.
Round2(raw) == ((raw * 100) + (QuotaDivisor \div 2)) \div QuotaDivisor

\* The second component of a worker's result: None (present = FALSE), a dict
\* of get_user_info (success flag, balance or error text), or a text.
UserInfo(present, success, quota, used_quota, detail) ==
    [present |-> present, success |-> success, quota |-> quota,
     used_quota |-> used_quota, detail |-> detail]

NoUserInfo == UserInfo(FALSE, FALSE, 0, 0, None)

\* A text returned by the jiubanai or baozi worker; an empty text is falsy.
Text(t) == UserInfo(t # "", FALSE, 0, 0, t)

\* get_user_info: a balance on HTTP 200 with a truthy `success`, an error
\* record otherwise; every exception is caught and becomes an error record.
get_user_info(resp) ==
    IF resp.status = 0 \/ (resp.status = 200 /\ resp.body = "text")
    THEN UserInfo(TRUE, FALSE, 0, 0, "Failed to get user info: exception")
    ELSE IF resp.status = 200 /\ resp.success
    THEN UserInfo(TRUE, TRUE, Round2(resp.quota), Round2(resp.used_quota), "display")
    ELSE UserInfo(TRUE, FALSE, 0, 0, "Failed to get user info: HTTP")

\* Variant of get_waf_cookies_with_playwright that only tests that some
\* cookie was found.
get_waf_cookies_any(w) ==
    IF w.kind = "launch_error" THEN "raise"
    ELSE IF w.kind = "page_error" THEN None
    ELSE IF w.names = {} THEN None
    ELSE "cookies"

\* get_waf_cookies_with_playwright: the cookie set when all required cookies
\* are present, None when one is missing or the page raised; "raise" when the
\* browser could not be launched (outside the function's try).
get_waf_cookies_with_playwright(w) ==
    IF w.kind = "launch_error" THEN "raise"
    ELSE IF w.kind = "page_error" THEN None
    ELSE IF RequiredCookies \ w.names # {} THEN None
    ELSE "cookies"

\* prepare_cookies: None without usable WAF cookies, else the merged cookies.
prepare_cookies(provider, w) ==
    IF provider.waf
    THEN LET waf_cookies == get_waf_cookies_with_playwright(w)
         IN  IF waf_cookies = "raise" THEN "raise"
             ELSE IF waf_cookies = None THEN None
             ELSE "merged"
    ELSE "user"

\* Variant of execute_check_in that tests `not result.get('code')` instead of
\* `result.get('code') == 0`: a missing `code` counts as success.
execute_check_in_falsy_code(resp) ==
    IF resp.status = 0 THEN "raise"
    ELSE IF resp.status = 200
    THEN IF resp.body = "object"
         THEN IF resp.ret = 1 \/ resp.code \in {0, Absent} \/ resp.success = "true"
              THEN "true" ELSE "false"
         ELSE IF resp.body = "array" THEN "raise"
         ELSE IF resp.marker THEN "true" ELSE "false"
    ELSE "false"

\* execute_check_in: "true", "false", or "raise" (transport error; a JSON body
\* that is no object has no .get).
execute_check_in(resp) ==
    IF resp.status = 0 THEN "raise"
    ELSE IF resp.status = 200
    THEN IF resp.body = "object"
         THEN IF resp.ret = 1 \/ resp.code = 0 \/ resp.success = "true"
              THEN "true" ELSE "false"
         ELSE IF resp.body = "array" THEN "raise"
         ELSE IF resp.marker THEN "true" ELSE "false"
    ELSE "false"

\* Variant of Returned for a worker that, after a failure, sends its requests
\* a second time before it returns.
ReturnedAfterRetry(success, user_info, reqs) ==
    [present |-> TRUE, success |-> success, user_info |-> user_info,
     reqs |-> IF success THEN reqs ELSE reqs \o reqs, raised |-> FALSE]

\* The result of a worker call: (success, user_info), the requests it issued
\* in order, and raised = TRUE when an exception leaves the worker instead.
Returned(success, user_info, reqs) ==
    [present |-> TRUE, success |-> success, user_info |-> user_info, reqs |-> reqs,
     raised |-> FALSE]

Raised(reqs) ==
    [present |-> TRUE, success |-> FALSE, user_info |-> NoUserInfo, reqs |-> reqs,
     raised |-> TRUE]

\* The worker call issued the request `req`.
Issued(result, req) == \E r \in 1..Len(result.reqs) : result.reqs[r] = req

NoRet ==
    [present |-> FALSE, success |-> FALSE, user_info |-> NoUserInfo, reqs |-> <<>>,
     raised |-> FALSE]

\* check_in_account. client_ok = FALSE: httpx.Client(...) raises (line 285,
\* outside the try).
check_in_account(provider, cookies_ok, w, client_ok, ui, si) ==
    IF ~provider.found THEN Returned(FALSE, NoUserInfo, <<>>)
    ELSE IF ~cookies_ok THEN Returned(FALSE, NoUserInfo, <<>>)
    ELSE LET all_cookies == prepare_cookies(provider, w)
             wreq == IF provider.waf THEN <<"waf">> ELSE <<>>
         IN  IF all_cookies = "raise" THEN Raised(wreq)
             ELSE IF all_cookies = None THEN Returned(FALSE, NoUserInfo, wreq)
             ELSE IF ~client_ok THEN Raised(wreq)
             ELSE LET user_info == get_user_info(ui)
                      reqs1 == Append(wreq, "user_info")
                  IN  IF provider.manual
                      THEN LET r == execute_check_in(si)
                               reqs2 == Append(reqs1, "sign_in")
                           IN  IF r = "raise"
                               THEN Returned(FALSE, NoUserInfo, reqs2)
                               ELSE Returned(r = "true", user_info, reqs2)
                      ELSE Returned(TRUE, user_info, reqs1)

\* Response to POST check_in (jiubanai) and POST lottery (baozi). message
\* "absent" is a missing key; marker: the body text contains
\* "success" in any case (always so when the object has a `success` key).
FamilyResponses ==
    [status : {0, 500}, body : {"none"}, success : {"absent"}, message : {"absent"}, marker : {FALSE}]
    \cup [status : {200}, body : {"object"}, success : {"false", "true"},
          message : {"absent", "msg"}, marker : {TRUE}]
    \cup [status : {200}, body : {"object"}, success : {"absent"},
          message : {"absent", "msg"}, marker : BOOLEAN]
    \cup [status : {200}, body : {"array"}, success : {"absent"}, message : {"absent"}, marker : {FALSE}]
    \cup [status : {200}, body : {"text"}, success : {"absent"}, message : {"absent"}, marker : BOOLEAN]

NoFamilyResponse ==
    [status |-> -1, body |-> "none", success |-> "absent", message |-> "absent", marker |-> FALSE]

\* check_in_jiubanai_account.
check_in_jiubanai_account(veloera_user_ok, cookies_ok, client_ok, resp) ==
    IF ~veloera_user_ok THEN Returned(FALSE, Text("veloera_user identifier not found"), <<>>)
    ELSE IF ~cookies_ok THEN Returned(FALSE, Text("Invalid configuration format"), <<>>)
    ELSE IF ~client_ok THEN Raised(<<>>)
    ELSE IF resp.status = 0 \/ (resp.status = 200 /\ resp.body = "array")
    THEN Returned(FALSE, Text("Error: exception"), <<"check_in">>)
    ELSE IF resp.status # 200 THEN Returned(FALSE, Text("HTTP status"), <<"check_in">>)
    ELSE IF resp.body = "text"
    THEN Returned(FALSE, Text("Invalid response format"), <<"check_in">>)
    ELSE IF resp.success = "true"
    THEN Returned(TRUE, Text("message and quota gained"), <<"check_in">>)
    ELSE Returned(FALSE,
                  Text(IF resp.message = "absent" THEN "Unknown error" ELSE resp.message),
                  <<"check_in">>)

\* check_in_baozi_account. After a falsy `success`, a body text containing
\* "success" leads to get_user_info(client, headers), a call with a missing
\* argument: the TypeError is caught by the worker's except clause.
check_in_baozi_account(cookies_ok, client_ok, resp) ==
    IF ~cookies_ok THEN Returned(FALSE, Text("Invalid configuration format"), <<>>)
    ELSE IF ~client_ok THEN Raised(<<>>)
    ELSE IF resp.status = 0 \/ (resp.status = 200 /\ resp.body = "array")
    THEN Returned(FALSE, Text("Error: exception"), <<"lottery">>)
    ELSE IF resp.status # 200 THEN Returned(FALSE, Text("HTTP status"), <<"lottery">>)
    ELSE IF resp.body = "text"
    THEN Returned(FALSE, Text("Invalid response format"), <<"lottery">>)
    ELSE IF resp.success = "true"
    THEN Returned(TRUE, Text("message, quota, balance and code"), <<"lottery">>)
    ELSE IF resp.marker
    THEN Returned(FALSE, Text("Error: exception"), <<"lottery">>)
    ELSE Returned(FALSE,
                  Text(IF resp.message = "absent" THEN "unknown response" ELSE resp.message),
                  <<"lottery">>)

(***************************************************************************)
(* Display names and account keys.                                         *)
(***************************************************************************)
DigitStr == <<"0", "1", "2", "3", "4", "5", "6", "7", "8", "9">>

\* The decimal digits of n, as str(n) writes them.
RECURSIVE Digits(_)
Digits(n) == IF n < 10 THEN <<DigitStr[n + 1]>> ELSE Digits(n \div 10) \o <<DigitStr[(n % 10) + 1]>>

\* f'Account {i + 1}' and the like; i is the 1-based position in the list.
DefaultName(prefix, i) == <<prefix>> \o Digits(i)

\* `a in b` of two strings: a is a contiguous part of b.
IsSubstring(a, b) ==
    \E k \in 0..(Len(b) - Len(a)) : \A j \in 1..Len(a) : b[k + j] = a[j]

\* a < b in the order of Python strings, for two digit strings.
RECURSIVE StrLess(_, _)
StrLess(a, b) ==
    IF a = <<>> THEN b # <<>>
    ELSE IF b = <<>> THEN FALSE
    ELSE IF Head(a) = Head(b) THEN StrLess(Tail(a), Tail(b))
    ELSE \E x, y \in 1..10 : DigitStr[x] = Head(a) /\ DigitStr[y] = Head(b) /\ x < y

\* f'account_{i + 1}' orders as its digits do: the prefix is common.
KeyLess(j, k) == StrLess(Digits(j), Digits(k))

(***************************************************************************)
(* The balance fingerprint.                                                *)
(***************************************************************************)
\* Insert a (key, quota) pair in a key-sorted sequence; an equal key is replaced.
RECURSIVE InsertSorted(_, _)
InsertSorted(pair, sorted) ==
    IF sorted = <<>> THEN <<pair>>
    ELSE IF pair[1] = Head(sorted)[1] THEN <<pair>> \o Tail(sorted)
    ELSE IF KeyLess(pair[1], Head(sorted)[1]) THEN <<pair>> \o sorted
    ELSE <<Head(sorted)>> \o InsertSorted(pair, Tail(sorted))

\* json.dumps(simple_balances, sort_keys=True, ...): the (key, quota) pairs in
\* key order.
RECURSIVE SortedDump(_)
SortedDump(balances) ==
    IF balances = <<>> THEN <<>>
    ELSE InsertSorted(<<Head(balances).key, Head(balances).quota>>, SortedDump(Tail(balances)))

NoHash == [present |-> FALSE, digest |-> <<>>]

\* Variant of generate_balance_hash without sort_keys=True: the dump follows
\* the insertion order of the dict.
generate_balance_hash_unsorted(balances) ==
    [present |-> TRUE,
     digest |-> [k \in 1..Len(balances) |-> <<balances[k].key, balances[k].quota>>]]

\* generate_balance_hash: sha256 of the sorted dump of key -> quota, cut to 16
\* hex digits. The digest is modelled as injective on the dump.
generate_balance_hash(balances) == [present |-> TRUE, digest |-> SortedDump(balances)]

\* The balance maps of an earlier run over n accounts, in insertion order:
\* any non-empty set of the accounts had a known balance, each the least quota.
RECURSIVE StoredMaps(_)
StoredMaps(n) ==
    IF n = 0 THEN {<<>>}
    ELSE LET prev == StoredMaps(n - 1)
             least == CHOOSE q \in RawQuotas : \A r \in RawQuotas : q <= r
         IN  prev \cup {Append(m, [key |-> n, quota |-> Round2(least), used |-> 0]) : m \in prev}

\* What balance_hash.txt may hold when a run starts: nothing, or the
\* fingerprint an earlier run saved for (some of) the n accounts.
StoredHashes(n) ==
    {NoHash} \cup {generate_balance_hash(m) :
                      m \in StoredMaps(IF n = 0 THEN 1 ELSE n) \ {<<>>}}

(***************************************************************************)
(* Report entries.                                                         *)
(***************************************************************************)
\* One element of a notification_content list: f'{status} {name}' and, when
\* there is one, the detail line ("display" carries the balance).
Entry(status, name, detail, quota, used) ==
    [status |-> status, name |-> name, detail |-> detail, quota |-> quota, used |-> used]

NoReport == [present |-> FALSE, anyrouter |-> <<>>, jiubanai |-> <<>>, baozi |-> <<>>,
             overall |-> None]

(***************************************************************************)
(* State.                                                                  *)
(***************************************************************************)
VARIABLES
    nAccounts, names,                      \* load_accounts_config(): how many, display names
    run, prev_balances,                    \* history: which run this is, and the balances the
                                           \* run before it knew
    hashFile, fileLog,                     \* balance_hash.txt and the accesses to it
    pc, idx, chan,                         \* position in main / push_message
    call, ret,                             \* the worker call in progress and its result
    last_balance_hash, current_balance_hash,
    success_count, notification_content, current_balances,
    need_notify, balance_changed,
    jiubanai_load, jiubanai_total, jiubanai_success, jiubanai_notification_content,
    baozi_load, baozi_total, baozi_success, baozi_notification_content,
    report, attempts, push_failed,         \* the report pushed, the channels tried, a failure seen
    escaped, exit_code,
    outcomes                               \* history: one record per outcome produced
                                           \* (success, raised, sign-in issued, balance known)

configVars == <<nAccounts, names>>
historyVars == <<run, prev_balances>>
fileVars == <<hashFile, fileLog>>
workerVars == <<call, ret>>
anyrouterVars == <<last_balance_hash, current_balance_hash, success_count,
                   notification_content, current_balances, balance_changed>>
jiubanaiVars == <<jiubanai_load, jiubanai_total, jiubanai_success, jiubanai_notification_content>>
baoziVars == <<baozi_load, baozi_total, baozi_success, baozi_notification_content>>
pushVars == <<report, attempts, push_failed, escaped, exit_code>>

vars == <<configVars, historyVars, fileVars, pc, idx, chan, workerVars, anyrouterVars, need_notify,
          jiubanaiVars, baoziVars, pushVars, outcomes>>

NoCall ==
    [family |-> None, index |-> 0, provider |-> [found |-> FALSE, waf |-> FALSE, manual |-> FALSE],
     cookies_ok |-> FALSE, waf |-> NoWaf, user_info |-> [status |-> -1, body |-> "none",
     success |-> FALSE, quota |-> 0, used_quota |-> 0], sign_in |-> NoSignIn,
     response |-> NoFamilyResponse]

(***************************************************************************)
(* Init: the state when main() starts.                                     *)
(***************************************************************************)
Init ==
    /\ nAccounts \in 0..MaxAccounts
    /\ names = [i \in 1..nAccounts |-> DefaultName("Account ", i)]
    /\ run = 1
    /\ prev_balances = <<>>
    /\ hashFile \in StoredHashes(nAccounts)
    /\ fileLog = <<>>
    /\ pc = "start"
    /\ idx = 0
    /\ chan = 0
    /\ call = NoCall
    /\ ret = NoRet
    /\ last_balance_hash = NoHash
    /\ current_balance_hash = NoHash
    /\ success_count = 0
    /\ notification_content = <<>>
    /\ current_balances = <<>>
    /\ need_notify = FALSE
    /\ balance_changed = FALSE
    /\ jiubanai_load = "pending"
    /\ jiubanai_total = 0
    /\ jiubanai_success = 0
    /\ jiubanai_notification_content = <<>>
    /\ baozi_load = "pending"
    /\ baozi_total = 0
    /\ baozi_success = 0
    /\ baozi_notification_content = <<>>
    /\ report = NoReport
    /\ attempts = <<>>
    /\ push_failed = FALSE
    /\ escaped = FALSE
    /\ exit_code = -1
    /\ outcomes = <<>>

(***************************************************************************)
(* main(): start, and the AnyRouter/AgentRouter loop.                      *)
(***************************************************************************)
\* Variant of load_balance_hash that looks for the file where it is not.
load_balance_hash_missing(file) == NoHash

\* load_balance_hash: the stripped content of the file, None without a file.
load_balance_hash(file) == IF file.present THEN file ELSE NoHash

\* Lines 505-528: load the configuration, read the stored fingerprint,
\* initialise the counters.
Start ==
    /\ pc = "start"
    /\ last_balance_hash' = load_balance_hash(hashFile)
    /\ fileLog' = Append(fileLog, <<"read", Len(outcomes)>>)
    /\ pc' = IF nAccounts > 0 THEN "anyrouter" ELSE "balance"
    /\ idx' = 1
    /\ UNCHANGED <<configVars, historyVars, hashFile, chan, workerVars, current_balance_hash, success_count,
                   notification_content, current_balances, balance_changed, need_notify,
                   jiubanaiVars, baoziVars, pushVars, outcomes>>

\* Line 534: await check_in_account(account, i, app_config). The account
\* record and the responses of the network are the inputs of the call.
CallAnyRouter ==
    /\ pc = "anyrouter"
    /\ ~ret.present
    /\ \E provider \in Providers, cookies_ok \in BOOLEAN :
         \E w \in (IF provider.found /\ cookies_ok /\ provider.waf THEN WafResults ELSE {NoWaf}) :
           LET reaches == /\ provider.found /\ cookies_ok
                          /\ prepare_cookies(provider, w) \notin {None, "raise"}
           IN  \E client_ok \in (IF reaches THEN BOOLEAN ELSE {TRUE}) :
                 \E ui \in (IF reaches /\ client_ok THEN UserInfoResponses ELSE {NoCall.user_info}) :
                   \E si \in (IF reaches /\ client_ok /\ provider.manual
                              THEN SignInResponses ELSE {NoSignIn}) :
                     /\ call' = [family |-> "anyrouter", index |-> idx, provider |-> provider,
                                 cookies_ok |-> cookies_ok, waf |-> w, user_info |-> ui,
                                 sign_in |-> si, response |-> NoFamilyResponse]
                     /\ ret' = check_in_account(provider, cookies_ok, w, client_ok, ui, si)
    /\ UNCHANGED <<configVars, historyVars, fileVars, pc, idx, chan, anyrouterVars, need_notify,
                   jiubanaiVars, baoziVars, pushVars, outcomes>>

\* Variant of FailEntry with the status test inverted.
FailEntryInverted(name, success, user_info) ==
    Entry(IF success THEN "[FAIL]" ELSE "[SUCCESS]", name,
          IF user_info.present THEN user_info.detail ELSE None, 0, 0)

\* Lines 551-559: the entry of a failed account.
FailEntry(name, success, user_info) ==
    Entry(IF success THEN "[SUCCESS]" ELSE "[FAIL]", name,
          IF user_info.present THEN user_info.detail ELSE None,
          IF user_info.present /\ user_info.success THEN user_info.quota ELSE 0,
          IF user_info.present /\ user_info.success THEN user_info.used_quota ELSE 0)

\* Lines 561-565: the entry of an account whose processing raised.
ExceptionEntry(name) == Entry("[FAIL]", name, "exception", 0, 0)

\* Variant of LoopContinues without the try/except inside the loop: an
\* exception ends the loop.
LoopBreaksOnRaise(raised, i, total) == ~raised /\ i < total

\* The for loops of main (lines 531, 614, 648) with their try/except: after
\* account i of `total`, whether its processing raised or not, the loop goes
\* on with the next account if there is one.
LoopContinues(raised, i, total) == i < total

\* Lines 535-565: the body of the loop after the call returned or raised.
CollectAnyRouter ==
    /\ pc = "anyrouter"
    /\ ret.present
    /\ LET success == ret.success
           user_info == ret.user_info
           name == names[idx]
       IN  IF ret.raised
           THEN /\ need_notify' = TRUE
                /\ notification_content' = Append(notification_content, ExceptionEntry(name))
                /\ UNCHANGED <<success_count, current_balances>>
           ELSE /\ success_count' = IF success THEN success_count + 1 ELSE success_count
                /\ need_notify' = (need_notify \/ ~success)
                /\ current_balances' =
                     IF user_info.present /\ user_info.success
                     THEN Append(current_balances,
                                 [key |-> idx, quota |-> user_info.quota, used |-> user_info.used_quota])
                     ELSE current_balances
                /\ notification_content' =
                     IF ~success
                     THEN Append(notification_content, FailEntry(name, success, user_info))
                     ELSE notification_content
    /\ outcomes' = Append(outcomes, [family |-> "anyrouter", index |-> idx,
                                     success |-> ret.success /\ ~ret.raised,
                                     raised |-> ret.raised,
                                     signed |-> Issued(ret, "sign_in"),
                                     balance |-> ret.user_info.present /\ ret.user_info.success])
    /\ call' = NoCall
    /\ ret' = NoRet
    /\ idx' = IF LoopContinues(ret.raised, idx, nAccounts) THEN idx + 1 ELSE 1
    /\ pc' = IF LoopContinues(ret.raised, idx, nAccounts) THEN "anyrouter" ELSE "balance"
    /\ UNCHANGED <<configVars, historyVars, fileVars, chan, last_balance_hash, current_balance_hash,
                   balance_changed, jiubanaiVars, baoziVars, pushVars>>

(***************************************************************************)
(* main(): balance change detection.                                       *)
(***************************************************************************)
\* Lines 585-594: append a [BALANCE] entry for every account with a known
\* balance whose name occurs in no entry so far.
RECURSIVE AddBalanceEntries(_, _, _)
AddBalanceEntries(content, balances, i) ==
    IF i > nAccounts THEN content
    ELSE LET known == {k \in 1..Len(balances) : balances[k].key = i}
         IN  IF known = {} THEN AddBalanceEntries(content, balances, i + 1)
             ELSE LET b == balances[CHOOSE k \in known : TRUE]
                      named == \E k \in 1..Len(content) : IsSubstring(names[i], content[k].name)
                  IN  AddBalanceEntries(
                          IF named THEN content
                          ELSE Append(content, Entry("[BALANCE]", names[i], "display", b.quota, b.used)),
                          balances, i + 1)

\* Variants of BalanceChanged with a plausible slip: the comparison with the
\* stored fingerprint left out; the first-run case left out.
BalanceChangedAlways(hash, last) == hash.present

BalanceChangedNoFirstRun(hash, last) == hash.present /\ last.present /\ hash # last

\* Lines 569-581: a computable fingerprint counts as a change on the first
\* run (nothing stored) and when it differs from the stored one.
BalanceChanged(hash, last) == hash.present /\ (~last.present \/ hash # last)

\* Variant of ShouldSave without the test of line 597.
ShouldSaveAlways(hash) == TRUE

\* Line 597: the fingerprint is saved when there is one.
ShouldSave(hash) == hash.present

\* Lines 567-598: compute the fingerprint, compare it with the stored one,
\* add the balance entries, save the fingerprint.
BalanceCheck ==
    /\ pc = "balance"
    /\ LET hash == IF current_balances # <<>> THEN generate_balance_hash(current_balances)
                   ELSE NoHash
           changed == BalanceChanged(hash, last_balance_hash)
       IN  /\ current_balance_hash' = hash
           /\ balance_changed' = changed
           /\ need_notify' = (need_notify \/ changed)
           /\ notification_content' =
                IF changed THEN AddBalanceEntries(notification_content, current_balances, 1)
                ELSE notification_content
           /\ hashFile' = IF ShouldSave(hash) THEN hash ELSE hashFile
           /\ fileLog' = IF ShouldSave(hash) THEN Append(fileLog, <<"write", Len(outcomes)>>)
                         ELSE fileLog
    /\ pc' = "jiubanai_load"
    /\ UNCHANGED <<configVars, historyVars, idx, chan, workerVars, last_balance_hash, success_count,
                   current_balances, jiubanaiVars, baoziVars, pushVars, outcomes>>

(***************************************************************************)
(* main(): the jiubanai and baozi families.                                *)
(***************************************************************************)
\* The value of JIUBANAI_ACCOUNTS / BAOZI_ACCOUNTS: unset or empty, no JSON,
\* JSON that is no array, or an array of at most `most` records, each
\* well-formed ("ok"), no object, or lacking a required field.
FamilyEnvs(recordKinds, most) ==
    [kind : {"unset", "not_json", "not_list"}, records : {<<>>}]
    \cup [kind : {"list"}, records : UNION {[1..k -> recordKinds] : k \in 0..most}]

JiubanaiRecords == {"ok", "not_dict", "no_cookies", "no_veloera_user"}
BaoziRecords == {"ok", "not_dict", "no_cookies"}

\* The accounts a loader returns: None, or the list (here its length).
Loaded(present, n) == [present |-> present, n |-> n]

\* Variant of load_jiubanai_accounts that drops the records it cannot use
\* and returns the others.
load_jiubanai_accounts_skip(env) ==
    IF env.kind # "list" THEN Loaded(FALSE, 0)
    ELSE Loaded(TRUE, Cardinality({k \in 1..Len(env.records) : env.records[k] = "ok"}))

\* load_jiubanai_accounts: None unless the value is an array of objects that
\* all have `cookies` and `veloera_user`.
load_jiubanai_accounts(env) ==
    IF env.kind # "list" THEN Loaded(FALSE, 0)
    ELSE IF \E k \in 1..Len(env.records) : env.records[k] # "ok" THEN Loaded(FALSE, 0)
    ELSE Loaded(TRUE, Len(env.records))

\* load_baozi_accounts: None unless the value is an array of objects that all
\* have `cookies`.
load_baozi_accounts(env) ==
    IF env.kind # "list" THEN Loaded(FALSE, 0)
    ELSE IF \E k \in 1..Len(env.records) : env.records[k] # "ok" THEN Loaded(FALSE, 0)
    ELSE Loaded(TRUE, Len(env.records))

\* What a loader was given and how it ended: "missing_field" when a record of
\* the array lacks a required field, "invalid" when the value is unusable in
\* another way (an error is printed, None returned), "empty" when there is
\* nothing to process (unset, or an empty array), else "list".
LoadOutcome(env, loaded) ==
    IF \E k \in 1..Len(env.records) : env.records[k] \in {"no_cookies", "no_veloera_user"}
    THEN "missing_field"
    ELSE IF env.kind = "unset" \/ (loaded.present /\ loaded.n = 0) THEN "empty"
    ELSE IF loaded.present THEN "list" ELSE "invalid"

\* Lines 605-612, 631-632.
LoadJiubanai ==
    /\ pc = "jiubanai_load"
    /\ \E env \in FamilyEnvs(JiubanaiRecords, MaxAccounts - nAccounts) :
         LET jiubanai_accounts == load_jiubanai_accounts(env)
             truthy == jiubanai_accounts.present /\ jiubanai_accounts.n > 0
         IN  /\ jiubanai_load' = LoadOutcome(env, jiubanai_accounts)
             /\ jiubanai_total' = IF truthy THEN jiubanai_accounts.n ELSE 0
             /\ pc' = IF truthy THEN "jiubanai" ELSE "baozi_load"
    /\ idx' = 1
    /\ UNCHANGED <<configVars, historyVars, fileVars, chan, workerVars, anyrouterVars, need_notify,
                   jiubanai_success, jiubanai_notification_content, baoziVars, pushVars, outcomes>>

\* Line 616: check_in_jiubanai_account(account, i).
CallJiubanai ==
    /\ pc = "jiubanai"
    /\ ~ret.present
    /\ \E veloera_user_ok \in BOOLEAN, cookies_ok \in BOOLEAN :
         LET reaches == veloera_user_ok /\ cookies_ok
         IN  \E client_ok \in (IF reaches THEN BOOLEAN ELSE {TRUE}) :
               \E resp \in (IF reaches /\ client_ok THEN FamilyResponses
                            ELSE {NoFamilyResponse}) :
                 /\ call' = [NoCall EXCEPT !.family = "jiubanai", !.index = idx,
                                           !.cookies_ok = cookies_ok, !.response = resp]
                 /\ ret' = check_in_jiubanai_account(veloera_user_ok, cookies_ok, client_ok, resp)
    /\ UNCHANGED <<configVars, historyVars, fileVars, pc, idx, chan, anyrouterVars, need_notify,
                   jiubanaiVars, baoziVars, pushVars, outcomes>>

\* Lines 622-626 and 656-661: the entry of a jiubanai or baozi account.
FamilyEntry(status, name, user_info) ==
    Entry(status, name, IF user_info.present THEN user_info.detail ELSE None, 0, 0)

\* Lines 617-630.
CollectJiubanai ==
    /\ pc = "jiubanai"
    /\ ret.present
    /\ LET name == DefaultName("jiubanai Account ", idx)
       IN  IF ret.raised
           THEN /\ jiubanai_notification_content' =
                     Append(jiubanai_notification_content, ExceptionEntry(name))
                /\ UNCHANGED jiubanai_success
           ELSE /\ jiubanai_success' = IF ret.success THEN jiubanai_success + 1 ELSE jiubanai_success
                /\ jiubanai_notification_content' =
                     Append(jiubanai_notification_content,
                            FamilyEntry(IF ret.success THEN "[SUCCESS]" ELSE "[FAIL]", name,
                                        ret.user_info))
    /\ need_notify' = TRUE
    /\ outcomes' = Append(outcomes, [family |-> "jiubanai", index |-> idx,
                                     success |-> ret.success /\ ~ret.raised,
                                     raised |-> ret.raised, signed |-> FALSE,
                                     balance |-> FALSE])
    /\ call' = NoCall
    /\ ret' = NoRet
    /\ idx' = IF LoopContinues(ret.raised, idx, jiubanai_total) THEN idx + 1 ELSE 1
    /\ pc' = IF LoopContinues(ret.raised, idx, jiubanai_total) THEN "jiubanai" ELSE "baozi_load"
    /\ UNCHANGED <<configVars, historyVars, fileVars, chan, anyrouterVars, jiubanai_load, jiubanai_total,
                   baoziVars, pushVars>>

\* Lines 639-646, 666-667.
LoadBaozi ==
    /\ pc = "baozi_load"
    /\ \E env \in FamilyEnvs(BaoziRecords, MaxAccounts - nAccounts - jiubanai_total) :
         LET baozi_accounts == load_baozi_accounts(env)
             truthy == baozi_accounts.present /\ baozi_accounts.n > 0
         IN  /\ baozi_load' = LoadOutcome(env, baozi_accounts)
             /\ baozi_total' = IF truthy THEN baozi_accounts.n ELSE 0
             /\ pc' = IF truthy THEN "baozi" ELSE "gate"
    /\ idx' = 1
    /\ UNCHANGED <<configVars, historyVars, fileVars, chan, workerVars, anyrouterVars, need_notify,
                   jiubanaiVars, baozi_success, baozi_notification_content, pushVars, outcomes>>

\* Line 650: check_in_baozi_account(account, i).
CallBaozi ==
    /\ pc = "baozi"
    /\ ~ret.present
    /\ \E cookies_ok \in BOOLEAN :
         \E client_ok \in (IF cookies_ok THEN BOOLEAN ELSE {TRUE}) :
           \E resp \in (IF cookies_ok /\ client_ok THEN FamilyResponses
                        ELSE {NoFamilyResponse}) :
             /\ call' = [NoCall EXCEPT !.family = "baozi", !.index = idx,
                                       !.cookies_ok = cookies_ok, !.response = resp]
             /\ ret' = check_in_baozi_account(cookies_ok, client_ok, resp)
    /\ UNCHANGED <<configVars, historyVars, fileVars, pc, idx, chan, anyrouterVars, need_notify,
                   jiubanaiVars, baoziVars, pushVars, outcomes>>

\* Lines 651-665.
CollectBaozi ==
    /\ pc = "baozi"
    /\ ret.present
    /\ LET name == DefaultName("baozi Account ", idx)
       IN  IF ret.raised
           THEN /\ baozi_notification_content' =
                     Append(baozi_notification_content, ExceptionEntry(name))
                /\ UNCHANGED baozi_success
           ELSE /\ baozi_success' = IF ret.success THEN baozi_success + 1 ELSE baozi_success
                /\ baozi_notification_content' =
                     Append(baozi_notification_content,
                            FamilyEntry(IF ret.success THEN "[SUCCESS]" ELSE "[INFO]", name,
                                        ret.user_info))
    /\ need_notify' = TRUE
    /\ outcomes' = Append(outcomes, [family |-> "baozi", index |-> idx,
                                     success |-> ret.success /\ ~ret.raised,
                                     raised |-> ret.raised, signed |-> FALSE,
                                     balance |-> FALSE])
    /\ call' = NoCall
    /\ ret' = NoRet
    /\ idx' = IF LoopContinues(ret.raised, idx, baozi_total) THEN idx + 1 ELSE 1
    /\ pc' = IF LoopContinues(ret.raised, idx, baozi_total) THEN "baozi" ELSE "gate"
    /\ UNCHANGED <<configVars, historyVars, fileVars, chan, anyrouterVars, jiubanaiVars, baozi_load,
                   baozi_total, pushVars>>

(***************************************************************************)
(* main(): the notify gate and the exit code; push_message.                *)
(***************************************************************************)
\* Lines 706-717: the overall line of the report.
OverallSummary(succeeded, total) ==
    IF total = 0 THEN None
    ELSE IF succeeded = total THEN "[SUCCESS] All accounts check-in successful!"
    ELSE IF succeeded > 0 THEN "[WARN] Partial success"
    ELSE "[ERROR] All accounts check-in failed"

\* Variant of ShouldPush that looks at the AnyRouter/AgentRouter list only.
ShouldPushAnyRouterOnly(notify, c1, c2, c3) == notify /\ c1 # <<>>

\* Line 670: the condition under which the report is built and pushed.
ShouldPush(notify, c1, c2, c3) == notify /\ (c1 # <<>> \/ c2 # <<>> \/ c3 # <<>>)

\* Lines 669-729: build the report and call notify.push_message, or skip.
Gate ==
    /\ pc = "gate"
    /\ IF ShouldPush(need_notify, notification_content, jiubanai_notification_content,
                     baozi_notification_content)
       THEN /\ report' = [present |-> TRUE, anyrouter |-> notification_content,
                          jiubanai |-> jiubanai_notification_content,
                          baozi |-> baozi_notification_content,
                          overall |-> OverallSummary(
                              success_count + jiubanai_success + baozi_success,
                              nAccounts + jiubanai_total + baozi_total)]
            /\ pc' = "push"
            /\ chan' = 1
       ELSE /\ pc' = "exit"
            /\ UNCHANGED <<report, chan>>
    /\ UNCHANGED <<configVars, historyVars, fileVars, idx, workerVars, anyrouterVars, need_notify,
                   jiubanaiVars, baoziVars, attempts, push_failed, escaped, exit_code, outcomes>>

\* What one send_* call does: "ok", or it raises because the channel is not
\* configured (ValueError) or because the delivery failed.
ChannelResults == {"ok", "not_configured", "delivery_failed"}

\* The channels whose delivery call sets no timeout: smtplib.SMTP_SSL(server,
\* 465) in send_email and requests.request(...) in send_webhook; the others
\* use httpx.Client(timeout=30.0).
Unbounded == {"Email", "Webhook"}

\* What one send_* call of the channel may do: a call without a timeout may
\* also wait for ever ("hang").
ChannelOutcomes(name) ==
    IF name \in Unbounded THEN ChannelResults \cup {"hang"} ELSE ChannelResults

\* Variants of push_step without the except clause: any failure, or a missing
\* configuration, leaves push_message.
push_step_propagate(result) == IF result = "ok" THEN "next" ELSE "raise"

push_step_abort(result) == IF result = "not_configured" THEN "raise" ELSE "next"

\* Lines 245-249 of utils/notify.py: the try/except around one channel.
\* "next": the loop goes on; "raise": the exception leaves push_message.
push_step(result) == "next"

\* Lines 244-249: one iteration of the loop of push_message.
PushChannel ==
    /\ pc = "push"
    /\ \E result \in ChannelOutcomes(Channels[chan]) :
         /\ attempts' = Append(attempts, Channels[chan])
         /\ push_failed' = (push_failed \/ result \notin {"ok", "hang"})
         /\ IF result = "hang"
            THEN /\ escaped' = escaped
                 /\ pc' = "hung"
                 /\ chan' = chan
            ELSE IF push_step(result) = "raise"
            THEN /\ escaped' = TRUE
                 /\ pc' = "exit"
                 /\ chan' = chan
            ELSE /\ escaped' = escaped
                 /\ pc' = IF chan < Len(Channels) THEN "push" ELSE "exit"
                 /\ chan' = IF chan < Len(Channels) THEN chan + 1 ELSE chan
    /\ UNCHANGED <<configVars, historyVars, fileVars, idx, workerVars, anyrouterVars, need_notify,
                   jiubanaiVars, baoziVars, report, exit_code, outcomes>>

\* Lines 731-733 and run_main: sys.exit(0 if total_all_success > 0 else 1); an
\* exception that left main is caught by run_main, which exits with 1.
ExitCode(raised, total_all_success) ==
    IF raised THEN 1 ELSE IF total_all_success > 0 THEN 0 ELSE 1

Exit ==
    /\ pc = "exit"
    /\ exit_code' = ExitCode(escaped, success_count + jiubanai_success + baozi_success)
    /\ pc' = "done"
    /\ UNCHANGED <<configVars, historyVars, fileVars, idx, chan, workerVars, anyrouterVars, need_notify,
                   jiubanaiVars, baoziVars, report, attempts, push_failed, escaped, outcomes>>

Next ==
    \/ Start
    \/ CallAnyRouter
    \/ CollectAnyRouter
    \/ BalanceCheck
    \/ LoadJiubanai
    \/ CallJiubanai
    \/ CollectJiubanai
    \/ LoadBaozi
    \/ CallBaozi
    \/ CollectBaozi
    \/ Gate
    \/ PushChannel
    \/ Exit

Spec == Init /\ [][Next]_vars

\* The run under the assumption that every step that can be taken is taken:
\* a call that returns or fails lets main go on.
SpecLive == Spec /\ WF_vars(Next)

TypeOK ==
    /\ pc \in {"start", "anyrouter", "balance", "jiubanai_load", "jiubanai", "baozi_load",
               "baozi", "gate", "push", "hung", "exit", "done", "hash", "hashed"}
    /\ success_count \in 0..nAccounts
    /\ exit_code \in {-1, 0, 1}

(***************************************************************************)
(* generate_balance_hash on its own: the function applied to balance maps  *)
(* built in every insertion order.                                         *)
(***************************************************************************)
\* Account numbers of the keys f'account_{i + 1}': "account_10" sorts between
\* "account_1" and "account_2".
HashKeys == {1, 2, 10}

\* Every dict over the key set `keys`, in every insertion order, with every
\* quota get_user_info can report.
RECURSIVE Orders(_)
Orders(keys) ==
    IF keys = {} THEN {<<>>}
    ELSE UNION {{<<[key |-> k, quota |-> Round2(q), used |-> 0]>> \o m :
                    m \in Orders(keys \ {k}), q \in RawQuotas} : k \in keys}

HashInputs == UNION {Orders(keys) : keys \in SUBSET HashKeys}

HashInit ==
    /\ pc = "hash"
    /\ current_balances \in HashInputs
    /\ current_balance_hash = NoHash
    /\ nAccounts = 0
    /\ names = <<>>
    /\ run = 1
    /\ prev_balances = <<>>
    /\ hashFile = NoHash
    /\ fileLog = <<>>
    /\ idx = 0
    /\ chan = 0
    /\ call = NoCall
    /\ ret = NoRet
    /\ last_balance_hash = NoHash
    /\ success_count = 0
    /\ notification_content = <<>>
    /\ need_notify = FALSE
    /\ balance_changed = FALSE
    /\ jiubanai_load = "pending"
    /\ jiubanai_total = 0
    /\ jiubanai_success = 0
    /\ jiubanai_notification_content = <<>>
    /\ baozi_load = "pending"
    /\ baozi_total = 0
    /\ baozi_success = 0
    /\ baozi_notification_content = <<>>
    /\ report = NoReport
    /\ attempts = <<>>
    /\ push_failed = FALSE
    /\ escaped = FALSE
    /\ exit_code = -1
    /\ outcomes = <<>>

\* Line 568: current_balance_hash = generate_balance_hash(current_balances).
ApplyHash ==
    /\ pc = "hash"
    /\ current_balance_hash' = generate_balance_hash(current_balances)
    /\ pc' = "hashed"
    /\ UNCHANGED <<configVars, historyVars, fileVars, idx, chan, workerVars, last_balance_hash,
                   success_count, notification_content, current_balances, balance_changed,
                   need_notify, jiubanaiVars, baoziVars, pushVars, outcomes>>

HashNext == ApplyHash

SpecHash == HashInit /\ [][HashNext]_vars

(***************************************************************************)
(* Two runs in a row with only AnyRouter/AgentRouter accounts configured:  *)
(* the second run starts from the balance_hash.txt the first one left.     *)
(***************************************************************************)
\* The first of the two runs finds no balance_hash.txt.
RunsInit == Init /\ hashFile = NoHash

\* Lines 605-612 with JIUBANAI_ACCOUNTS unset or an empty array.
NoJiubanai == LoadJiubanai /\ jiubanai_load' = "empty"

\* Lines 639-646 with BAOZI_ACCOUNTS unset or an empty array.
NoBaozi == LoadBaozi /\ baozi_load' = "empty"

\* run_main (lines 736-745) is started again after the process has exited:
\* everything but the configuration and balance_hash.txt starts afresh.
NextRun ==
    /\ pc = "done"
    /\ run = 1
    /\ run' = 2
    /\ prev_balances' = current_balances
    /\ pc' = "start"
    /\ fileLog' = <<>>
    /\ idx' = 0
    /\ chan' = 0
    /\ last_balance_hash' = NoHash
    /\ current_balance_hash' = NoHash
    /\ success_count' = 0
    /\ notification_content' = <<>>
    /\ current_balances' = <<>>
    /\ need_notify' = FALSE
    /\ balance_changed' = FALSE
    /\ jiubanai_load' = "pending"
    /\ jiubanai_total' = 0
    /\ jiubanai_success' = 0
    /\ jiubanai_notification_content' = <<>>
    /\ baozi_load' = "pending"
    /\ baozi_total' = 0
    /\ baozi_success' = 0
    /\ baozi_notification_content' = <<>>
    /\ report' = NoReport
    /\ attempts' = <<>>
    /\ push_failed' = FALSE
    /\ escaped' = FALSE
    /\ exit_code' = -1
    /\ outcomes' = <<>>
    /\ UNCHANGED <<configVars, hashFile, workerVars>>

RunsNext ==
    \/ Start
    \/ CallAnyRouter
    \/ CollectAnyRouter
    \/ BalanceCheck
    \/ NoJiubanai
    \/ NoBaozi
    \/ Gate
    \/ PushChannel
    \/ Exit
    \/ NextRun

SpecRuns == RunsInit /\ [][RunsNext]_vars

(***************************************************************************)
(* A run whose AnyRouter/AgentRouter accounts carry display names given in *)
(* the configuration, with no jiubanai and no baozi account.               *)
(***************************************************************************)
\* Display names an account may be given: account.get_display_name(i) returns
\* the configured name, or f'Account {i + 1}' without one.
NamePool == {<<"Account ", "1">>, <<"Account ", "1", "0">>, <<"Bob">>}

\* The lists of n different names.
NameLists(n) == {l \in [1..n -> NamePool] : \A j, k \in 1..n : l[j] = l[k] => j = k}

NamesInit ==
    /\ nAccounts \in 0..MaxAccounts
    /\ names \in NameLists(nAccounts)
    /\ run = 1
    /\ prev_balances = <<>>
    /\ hashFile \in StoredHashes(nAccounts)
    /\ fileLog = <<>>
    /\ pc = "start"
    /\ idx = 0
    /\ chan = 0
    /\ call = NoCall
    /\ ret = NoRet
    /\ last_balance_hash = NoHash
    /\ current_balance_hash = NoHash
    /\ success_count = 0
    /\ notification_content = <<>>
    /\ current_balances = <<>>
    /\ need_notify = FALSE
    /\ balance_changed = FALSE
    /\ jiubanai_load = "pending"
    /\ jiubanai_total = 0
    /\ jiubanai_success = 0
    /\ jiubanai_notification_content = <<>>
    /\ baozi_load = "pending"
    /\ baozi_total = 0
    /\ baozi_success = 0
    /\ baozi_notification_content = <<>>
    /\ report = NoReport
    /\ attempts = <<>>
    /\ push_failed = FALSE
    /\ escaped = FALSE
    /\ exit_code = -1
    /\ outcomes = <<>>

NamesNext ==
    \/ Start
    \/ CallAnyRouter
    \/ CollectAnyRouter
    \/ BalanceCheck
    \/ NoJiubanai
    \/ NoBaozi
    \/ Gate
    \/ PushChannel
    \/ Exit

SpecNames == NamesInit /\ [][NamesNext]_vars

(***************************************************************************)
(* Properties.                                                             *)
(***************************************************************************)
\* The gate has been evaluated.
AfterGate == pc \in {"push", "hung", "exit", "done"}

\* Every outcome of the run so far is a success.
AllSucceeded == \A k \in 1..Len(outcomes) : outcomes[k].success

\* The dispatcher was never invoked.
NotDispatched == ~report.present /\ attempts = <<>>

\* The report list and the display name of an account of a family.
ReportList(family) ==
    IF family = "anyrouter" THEN report.anyrouter
    ELSE IF family = "jiubanai" THEN report.jiubanai
    ELSE report.baozi

NameOf(family, i) ==
    IF family = "anyrouter" THEN names[i]
    ELSE IF family = "jiubanai" THEN DefaultName("jiubanai Account ", i)
    ELSE DefaultName("baozi Account ", i)

\* C1 as stated: a stored fingerprint equal to the computed one and only
\* successful accounts imply need_notify is false and the dispatcher is never
\* invoked.
C1_Original ==
    (AfterGate /\ last_balance_hash.present /\ current_balance_hash = last_balance_hash
        /\ AllSucceeded)
    => (~need_notify /\ NotDispatched)

\* C1, amended: a stored fingerprint equal to the computed one, only
\* successful accounts and no jiubanai or baozi account processed in the run
\* imply need_notify is false and the dispatcher is never invoked.
C1_Amended ==
    (AfterGate /\ last_balance_hash.present /\ current_balance_hash = last_balance_hash
        /\ AllSucceeded /\ jiubanai_total = 0 /\ baozi_total = 0)
    => (~need_notify /\ NotDispatched)

C1_Witness ==
    /\ pc = "done"
    /\ nAccounts = 2
    /\ last_balance_hash.present
    /\ current_balance_hash = last_balance_hash
    /\ AllSucceeded
    /\ jiubanai_total = 0 /\ baozi_total = 0
    /\ ~need_notify /\ NotDispatched

C3_ExitCode ==
    pc = "done" =>
        /\ exit_code \in {0, 1}
        /\ exit_code = 0 <=> (\E k \in 1..Len(outcomes) : outcomes[k].success)

C3_Witness ==
    /\ pc = "done"
    /\ exit_code = 0
    /\ report.present
    /\ push_failed
    /\ \E k \in 1..Len(outcomes) : ~outcomes[k].success

\* C4: in one call of the dispatcher every channel of the fixed list is tried
\* exactly once, in order, whatever the earlier channels did, and no exception
\* leaves the dispatcher.
C4_AllChannels ==
    /\ ~escaped
    /\ pc = "push" => attempts = SubSeq(Channels, 1, chan - 1)
    /\ (pc \in {"exit", "done"} /\ report.present) => attempts = Channels

C4_Witness ==
    /\ pc = "push"
    /\ chan = 2
    /\ push_failed

\* C5 as stated: every failed account has an entry with its name and the
\* failure status in the report that is dispatched.
C5_Original ==
    AfterGate =>
        \A k \in 1..Len(outcomes) :
            ~outcomes[k].success =>
                /\ report.present
                /\ \E e \in 1..Len(ReportList(outcomes[k].family)) :
                     LET entry == ReportList(outcomes[k].family)[e]
                     IN  /\ entry.name = NameOf(outcomes[k].family, outcomes[k].index)
                         /\ entry.status = "[FAIL]"

\* C5, amended: every failed account has an entry with its name in the
\* report that is dispatched; the entry is tagged [FAIL], except that a baozi
\* account whose check-in returned failure is tagged [INFO].
C5_Amended ==
    AfterGate =>
        \A k \in 1..Len(outcomes) :
            ~outcomes[k].success =>
                /\ report.present
                /\ \E e \in 1..Len(ReportList(outcomes[k].family)) :
                     LET entry == ReportList(outcomes[k].family)[e]
                     IN  /\ entry.name = NameOf(outcomes[k].family, outcomes[k].index)
                         /\ entry.status =
                              IF outcomes[k].family = "baozi" /\ ~outcomes[k].raised
                              THEN "[INFO]" ELSE "[FAIL]"

C5_Witness ==
    /\ pc = "push"
    /\ \E k \in 1..Len(outcomes) :
         /\ outcomes[k].family = "anyrouter"
         /\ ~outcomes[k].success
         /\ ~outcomes[k].raised
    /\ \E k \in 1..Len(outcomes) : outcomes[k].success

\* A call of check_in_account has returned (or raised) and main has not yet
\* consumed the result.
AnyRouterReturned == ret.present /\ call.family = "anyrouter"

\* C6: with an implicit check-in provider the outcome is success exactly when
\* the user-info fetch succeeded, and no sign-in request is issued.
C6_Claim ==
    (AnyRouterReturned /\ call.provider.found /\ ~call.provider.manual) =>
        /\ ret.success <=> (Issued(ret, "user_info") /\ get_user_info(call.user_info).success)
        /\ ~Issued(ret, "sign_in")

\* The success inference of C7, first match wins: (1) HTTP 200 and a JSON
\* object with ret == 1, code == 0 or a truthy success; (2) HTTP 200 and any
\* other JSON body: failure; (3) HTTP 200 and a non-JSON body containing
\* "success": success; (4) anything else: failure.
SignInRule(r) ==
    IF r.status = 200 /\ r.body = "object"
       /\ (r.ret = 1 \/ r.code = 0 \/ r.success = "true") THEN TRUE
    ELSE IF r.status = 200 /\ r.body \in {"object", "array"} THEN FALSE
    ELSE IF r.status = 200 /\ r.body = "text" /\ r.marker THEN TRUE
    ELSE FALSE

\* C7: the outcome of an explicit check-in is the one the first matching rule
\* gives for its response; no response outside rules (1) and (3) is a success.
C7_SuccessInference ==
    (AnyRouterReturned /\ Issued(ret, "sign_in")) => (ret.success = SignInRule(call.sign_in))

C7_Witness ==
    /\ AnyRouterReturned
    /\ Issued(ret, "sign_in")
    /\ call.sign_in.body = "object"
    /\ call.sign_in.ret = 0
    /\ call.sign_in.code = 0
    /\ call.sign_in.success = "false"
    /\ ret.success

\* C8: after a JSON sign-in response with no ret == 1, no code == 0 and no
\* truthy success, the outcome the worker returns is failed and carries the
\* body's message as its detail.
C8_Claim ==
    (AnyRouterReturned /\ Issued(ret, "sign_in")
        /\ call.sign_in.status = 200 /\ call.sign_in.body = "object"
        /\ ~SignInRule(call.sign_in) /\ call.sign_in.msg # "absent")
    => (~ret.success /\ ret.user_info.present /\ ret.user_info.detail = call.sign_in.msg)

\* The cookie acquisition of the call did not deliver all required cookies.
BypassFailed ==
    /\ call.provider.found /\ call.cookies_ok /\ call.provider.waf
    /\ (call.waf.kind # "cookies" \/ ~(RequiredCookies \subseteq call.waf.names))

\* C9: when the cookie acquisition lacks a required cookie or fails, the
\* account outcome is failed with no balance, and neither the user-info nor
\* the sign-in request is issued.
C9_BypassFailed ==
    (AnyRouterReturned /\ BypassFailed) =>
        /\ ~ret.success
        /\ ~ret.user_info.present
        /\ ret.reqs = <<"waf">>

C9_Witness ==
    /\ AnyRouterReturned
    /\ call.provider.waf
    /\ call.waf.kind = "cookies"
    /\ call.waf.names = {"acw_tc", "cdn_sec_tc"}
    /\ ~ret.success
    /\ ret.reqs = <<"waf">>

\* The number of accounts of each family whose processing is complete.
DoneAnyRouter ==
    IF pc = "start" THEN 0 ELSE IF pc = "anyrouter" THEN idx - 1 ELSE nAccounts

DoneJiubanai ==
    IF pc \in {"start", "anyrouter", "balance", "jiubanai_load"} THEN 0
    ELSE IF pc = "jiubanai" THEN idx - 1 ELSE jiubanai_total

DoneBaozi ==
    IF pc \in {"start", "anyrouter", "balance", "jiubanai_load", "jiubanai", "baozi_load"} THEN 0
    ELSE IF pc = "baozi" THEN idx - 1 ELSE baozi_total

Successes(family) ==
    Cardinality({k \in 1..Len(outcomes) : outcomes[k].family = family /\ outcomes[k].success})

\* C10: every configured account of every family is processed exactly once
\* and yields exactly one outcome, in order; an account whose processing
\* raised counts as failed, and the accounts after it are still processed.
C10_OneOutcomeEach ==
    /\ Len(outcomes) = DoneAnyRouter + DoneJiubanai + DoneBaozi
    /\ \A k \in 1..Len(outcomes) :
         /\ k <= DoneAnyRouter =>
              outcomes[k].family = "anyrouter" /\ outcomes[k].index = k
         /\ (k > DoneAnyRouter /\ k <= DoneAnyRouter + DoneJiubanai) =>
              outcomes[k].family = "jiubanai" /\ outcomes[k].index = k - DoneAnyRouter
         /\ k > DoneAnyRouter + DoneJiubanai =>
              outcomes[k].family = "baozi"
              /\ outcomes[k].index = k - DoneAnyRouter - DoneJiubanai
         /\ outcomes[k].raised => ~outcomes[k].success
    /\ ~ret.present =>
         /\ success_count = Successes("anyrouter")
         /\ jiubanai_success = Successes("jiubanai")
         /\ baozi_success = Successes("baozi")

C10_Witness ==
    /\ pc = "done"
    /\ Len(outcomes) = 2
    /\ outcomes[1].family = "anyrouter" /\ outcomes[1].raised
    /\ outcomes[2].family = "anyrouter" /\ outcomes[2].success

\* Two balance maps hold the same quota under the same account keys.
SameMapping(a, b) ==
    {<<a[k].key, a[k].quota>> : k \in 1..Len(a)} = {<<b[k].key, b[k].quota>> : k \in 1..Len(b)}

\* C11: the fingerprint of a balance map is the fingerprint of every map
\* with the same account keys and the same quota per key, whatever the order
\* in which the keys were inserted.
C11_OrderInvariant ==
    pc = "hashed" =>
        \A m \in HashInputs :
            SameMapping(m, current_balances) => generate_balance_hash(m) = current_balance_hash

C11_Witness ==
    /\ pc = "hashed"
    /\ Len(current_balances) = 3
    /\ current_balances[1].key = 2 /\ current_balances[2].key = 10 /\ current_balances[3].key = 1
    /\ current_balance_hash.digest[1][1] = 1
    /\ current_balance_hash.digest[2][1] = 10
    /\ current_balance_hash.digest[3][1] = 2

\* No account of the family was checked in and no request was sent for it.
Excluded(family, total, succeeded, content) ==
    /\ total = 0 /\ succeeded = 0 /\ content = <<>>
    /\ pc # family
    /\ call.family # family
    /\ \A k \in 1..Len(outcomes) : outcomes[k].family # family
    /\ report.present => ReportList(family) = <<>>

\* C12: when a record of a family's configuration lacks a required field, no
\* account of that family is checked in, no request is sent for the family,
\* and the family adds nothing to the counts and to the report, as when it
\* is not configured; the other families are still processed.
C12_GroupExcluded ==
    /\ jiubanai_load = "missing_field" =>
          /\ Excluded("jiubanai", jiubanai_total, jiubanai_success, jiubanai_notification_content)
          /\ pc # "jiubanai_load"
    /\ baozi_load = "missing_field" =>
          /\ Excluded("baozi", baozi_total, baozi_success, baozi_notification_content)
          /\ pc # "baozi_load"
    /\ pc = "done" => Len(outcomes) = nAccounts + jiubanai_total + baozi_total

C12_Witness ==
    /\ pc = "done"
    /\ jiubanai_load = "missing_field"
    /\ nAccounts = 1
    /\ baozi_total = 1
    /\ Len(outcomes) = 2
    /\ outcomes[2].family = "baozi" /\ outcomes[2].success

\* C13: in the second of two runs with only AnyRouter/AgentRouter accounts,
\* when the first run stored a fingerprint, the second run knows the same
\* balance for the same accounts and every account succeeds, the dispatcher
\* is not invoked and balance_hash.txt holds what the first run left in it.
C13_Idempotent ==
    (run = 2 /\ AfterGate /\ prev_balances # <<>>
        /\ SameMapping(current_balances, prev_balances) /\ AllSucceeded)
    => (NotDispatched /\ hashFile = last_balance_hash)

C13_Witness ==
    /\ run = 2
    /\ pc = "done"
    /\ nAccounts = 2
    /\ Len(prev_balances) = 2
    /\ SameMapping(current_balances, prev_balances)
    /\ AllSucceeded
    /\ NotDispatched
    /\ hashFile = last_balance_hash
    /\ fileLog = <<<<"read", 0>>, <<"write", 2>>>>

\* The positions in fileLog of the reads and of the writes of balance_hash.txt.
Reads == {k \in 1..Len(fileLog) : fileLog[k][1] = "read"}

Writes == {k \in 1..Len(fileLog) : fileLog[k][1] = "write"}

\* The balance check of the run is over.
AfterBalanceCheck == pc \notin {"start", "anyrouter", "balance"}

\* What C14 says of the read, of the number of writes and of when there is a
\* write: one read, before any account is processed; at most one write; once
\* the balance check is over, a write exactly when some account has a known
\* balance, and otherwise the file as it was read.
ReadOnceWriteIfComputable ==
    /\ pc # "start" => (Cardinality(Reads) = 1 /\ fileLog[1] = <<"read", 0>>)
    /\ Cardinality(Writes) <= 1
    /\ AfterBalanceCheck =>
          /\ (Writes # {}) <=> (current_balances # <<>>)
          /\ Writes # {} => hashFile = generate_balance_hash(current_balances)
          /\ Writes = {} => hashFile = last_balance_hash
    /\ ~AfterBalanceCheck => Writes = {}

\* C14 as stated: the write, if any, comes at the end of the run, after all
\* accounts of all families are processed.
C14_Original ==
    /\ ReadOnceWriteIfComputable
    /\ pc = "done" => \A k \in Writes : fileLog[k][2] = nAccounts + jiubanai_total + baozi_total

\* C14, amended: the write, if any, comes when all AnyRouter/AgentRouter
\* accounts are processed, before the jiubanai and baozi accounts are loaded
\* and processed and before the report is dispatched.
C14_Amended ==
    /\ ReadOnceWriteIfComputable
    /\ \A k \in Writes : fileLog[k][2] = nAccounts
    /\ pc = "balance" => (jiubanai_load = "pending" /\ baozi_load = "pending" /\ NotDispatched)

C14_Witness ==
    /\ pc = "done"
    /\ fileLog = <<<<"read", 0>>, <<"write", 1>>>>
    /\ Len(outcomes) = 2
    /\ outcomes[2].family = "jiubanai"
    /\ report.present

\* The call is for an account with an explicit check-in provider, and its
\* user-info fetch was made and failed.
UserInfoFetchFailed ==
    /\ AnyRouterReturned
    /\ call.provider.found /\ call.provider.manual
    /\ Issued(ret, "user_info")
    /\ ~get_user_info(call.user_info).success

\* C15: after a failed user-info fetch for an account with an explicit
\* check-in provider, the sign-in request is still issued, the success flag
\* is the one the sign-in response gives, the outcome carries the error text
\* of the fetch and no balance; and only accounts whose outcome has a
\* balance have an entry in current_balances.
C15_Claim ==
    /\ UserInfoFetchFailed =>
          /\ Issued(ret, "sign_in")
          /\ ret.success = SignInRule(call.sign_in)
          /\ ret.user_info.present
          /\ ~ret.user_info.success
          /\ ret.user_info.detail = get_user_info(call.user_info).detail
    /\ {current_balances[k].key : k \in 1..Len(current_balances)}
         = {outcomes[k].index : k \in {j \in 1..Len(outcomes) :
                                         outcomes[j].family = "anyrouter" /\ outcomes[j].balance}}

\* The requests a worker can send: the browser session for the WAF cookies,
\* the user-info request, and the check-in request of each family.
RequestKinds == {"waf", "user_info", "sign_in", "check_in", "lottery"}

\* C16: a worker call sends each of its requests at most once, every account
\* has at most one outcome in the run, and push_message tries every channel
\* at most once, whether the attempts failed or not.
C16_NoRetry ==
    /\ \A q \in RequestKinds : Cardinality({r \in 1..Len(ret.reqs) : ret.reqs[r] = q}) <= 1
    /\ \A r \in 1..Len(ret.reqs) : ret.reqs[r] \in RequestKinds
    /\ \A j, k \in 1..Len(outcomes) :
         (outcomes[j].family = outcomes[k].family /\ outcomes[j].index = outcomes[k].index)
         => j = k
    /\ ret.present => \A k \in 1..Len(outcomes) :
         ~(outcomes[k].family = call.family /\ outcomes[k].index = call.index)
    /\ \A j, k \in 1..Len(attempts) : attempts[j] = attempts[k] => j = k

C16_Witness ==
    /\ pc = "done"
    /\ attempts = Channels
    /\ push_failed
    /\ Len(outcomes) = 2
    /\ outcomes[1].family = "anyrouter" /\ outcomes[1].signed /\ ~outcomes[1].success
    /\ outcomes[2].family = "baozi" /\ ~outcomes[2].success

\* C17: when every call that is made returns or fails, the run ends with an
\* exit code.
C17_Claim == <>(pc = "done" /\ exit_code \in {0, 1})

\* C18: a baozi call answered with HTTP 200 and a JSON object whose
\* `success` is present and falsy, with a `message`, returns a failed outcome
\* whose detail is that message.
C18_Claim ==
    (ret.present /\ call.family = "baozi"
        /\ call.response.status = 200 /\ call.response.body = "object"
        /\ call.response.success = "false" /\ call.response.message # "absent")
    => (~ret.success /\ ret.user_info.present /\ ret.user_info.detail = call.response.message)

\* C19: when the run detected a balance change or a first run, the report
\* is dispatched and every AnyRouter/AgentRouter account with a known balance
\* has an entry under its own name in it: its failure entry, or a [BALANCE]
\* entry with its quota and used quota.
C19_Claim ==
    (AfterGate /\ balance_changed) =>
        /\ report.present
        /\ \A b \in 1..Len(current_balances) :
             \E e \in 1..Len(report.anyrouter) :
                LET entry == report.anyrouter[e]
                    balance == current_balances[b]
                IN  /\ entry.name = names[balance.key]
                    /\ \/ entry.status = "[FAIL]"
                       \/ /\ entry.status = "[BALANCE]"
                          /\ entry.quota = balance.quota
                          /\ entry.used = balance.used

\* C20: when the gate is evaluated, need_notify implies that one of the
\* three content lists is non-empty; so after the gate the report has been
\* handed to push_message, once, exactly when need_notify is true.
C20_GateInvariant ==
    /\ (pc = "gate" /\ need_notify) =>
          \/ notification_content # <<>>
          \/ jiubanai_notification_content # <<>>
          \/ baozi_notification_content # <<>>
    /\ AfterGate => (report.present <=> need_notify)
    /\ (AfterGate /\ ~need_notify) => NotDispatched
    /\ (pc \in {"exit", "done"} /\ need_notify) => attempts = Channels
    /\ ~AfterGate => NotDispatched

C20_Witness ==
    /\ pc = "done"
    /\ need_notify
    /\ balance_changed
    /\ AllSucceeded
    /\ nAccounts = 2
    /\ Len(report.anyrouter) = 1
    /\ report.anyrouter[1].status = "[BALANCE]"
    /\ attempts = Channels

\* Every account whose balance was known in the run before and is known in
\* this run has the same quota in both: the fetches that succeeded show no
\* account whose quota changed.
NoQuotaChanged ==
    \A j \in 1..Len(prev_balances), k \in 1..Len(current_balances) :
        prev_balances[j].key = current_balances[k].key
        => prev_balances[j].quota = current_balances[k].quota

\* C21: in a run that finds the fingerprint the run before it wrote, no
\* balance change is detected when no account's quota differs from its quota
\* in that run, whichever balance fetches succeeded or failed in either run.
C21_Claim ==
    (run = 2 /\ AfterBalanceCheck /\ prev_balances # <<>> /\ last_balance_hash.present
        /\ NoQuotaChanged)
    => ~balance_changed
=============================================================================
